---------------------------- MODULE Spec2Model ----------------------------
(***************************************************************************)
(* Sigma protocols of awsong/crypto over small groups:                     *)
(*   - df.MultiplicationProver / df.MultiplicationVerifier                 *)
(*   - schnorr.Prover / schnorr.Verifier (representation proof)            *)
(*   - df.PositiveProver / df.PositiveVerifier                             *)
(* Every prover and verifier is an object whose methods may be called in   *)
(* any order; an action is one method call.  A Go run-time panic (nil      *)
(* dereference, index out of range) is the outcome "panic".                *)
(***************************************************************************)
EXTENDS Integers, Sequences, FiniteSets, TLC

VARIABLES
    goExp,      \* what math/big's Exp does with a negative exponent in this build
    comm,       \* the three Committers' decommit values (x1,r1,x2,r2,x3,r3)
    mp,         \* MultiplicationProver's maskings y1,s1,y,s2,s3 (Nil until set)
    mv,         \* MultiplicationVerifier's challenge, d1, d2, d3 (each Nil until set)
    sch,        \* the arguments of schnorr.NewProver: secrets, bases, y
    sp,         \* schnorr.Prover: whether it was built, and its randomVals
    sv,         \* schnorr.Verifier: proofRandomData, bases, y, challenge
    pw,         \* the positive proof's witness x, r; the commitment is G^x * H^r
    pp,         \* df.PositiveProver (Nil until built)
    pn,         \* the sub-committers NewPositiveProver has created
    pv,         \* df.PositiveVerifier, the last NewPositiveVerifier call, and the
                \* sub-verifiers the last Verify invoked
    wire,       \* messages in flight: random data, challenge, response
    last,       \* the last method call and its outcome
    phase,      \* the protocol's phase: the shared state machine of the three pairs
    spare       \* calls outside the protocol's sequence this run may still make

mulVars == <<comm, mp, mv>>
schVars == <<sch, sp, sv>>
posVars == <<pw, pp, pv, pn>>
vars == <<goExp, mulVars, schVars, posVars, wire, last, phase, spare>>

(***************************************************************************)
(* Bounds of the model.                                                    *)
(***************************************************************************)
MaxX == 1           \* committed values x1, x2, x3 range over 0..MaxX
MaxR == 1           \* commitment randomness r1, r2, r3 ranges over 0..MaxR
MaxMask == 2        \* GetRandomInt(b) is sampled from 0..Min(b, MaxMask)-1
MaxMisuse == 1      \* calls outside the sequence a run of SpecOrder makes
MaxK == 2           \* a representation has 1..MaxK bases
MaxTamper == 6      \* a forged response element or challenge is at most MaxTamper
MaxPosX == 2        \* the positive proof's witness x ranges over -MaxPosX..MaxPosX
MaxPosR == 2        \* and its randomness r over -MaxPosR..MaxPosR
MaxList == 5        \* forged commitment lists have at most MaxList elements

(***************************************************************************)
(* Optional values: a Go nil pointer is Nil, a set pointer is Some(v).     *)
(***************************************************************************)
Nil == <<>>
Some(v) == <<v>>
IsNil(o) == Len(o) = 0
Val(o) == o[1]

Min(a, b) == IF a <= b THEN a ELSE b
Abs(a) == IF a < 0 THEN -a ELSE a

RECURSIVE Pow(_, _)
Pow(b, e) == IF e <= 0 THEN 1 ELSE b * Pow(b, e - 1)

RECURSIVE BitLen(_)
BitLen(n) == IF n = 0 THEN 0 ELSE 1 + BitLen(n \div 2)

(***************************************************************************)
(* The hidden-order group QR_N (QRSpecialRSA) and the commitment scheme.   *)
(* N = 5 * 7, both safe primes; QR_35 = {1,4,9,11,16,29} is cyclic of      *)
(* order 6, H = 4 generates it and G = H^5 = 9.                            *)
(***************************************************************************)
N == 35
H == 4
G == 9
T == 4              \* Committer.T: committed values are below T
B == 1              \* Committer.B
ChallengeSpaceSize == 1

RECURSIVE ModExp(_, _, _)
ModExp(b, e, m) == IF e = 0 THEN 1 % m ELSE (b * ModExp(b, e - 1, m)) % m

ModInverse(a, m) ==
    IF \E z \in 1..(m - 1) : (a * z) % m = 1
    THEN CHOOSE z \in 1..(m - 1) : (a * z) % m = 1
    ELSE 0

\* QRSpecialRSA.Mul, Inv, Exp.  Exp is big.Int.Exp(x, y, N): for y < 0 the Go
\* release decides between 1 (up to Go 1.11) and the modular inverse power.
QRMul(a, b) == (a * b) % N
QRInv(a) == ModInverse(a, N)
QRExp(b, e) ==
    IF e >= 0 THEN ModExp(b, e, N)
    ELSE IF goExp = "inverse" THEN ModInverse(ModExp(b, -e, N), N)
    ELSE 1

\* Order of a group element: the least k >= 1 with b^k = 1.
Ord(b) == CHOOSE k \in 1..N : ModExp(b, k, N) = 1 /\ \A j \in 1..(k - 1) : ModExp(b, j, N) # 1

\* Committer.ComputeCommit / Receiver.ComputeCommit: G^a * H^r mod N.
ComputeCommit(a, r) == QRMul(QRExp(G, a), QRExp(H, r))

\* common.GetRandomInt(b): a value of [0, b), here of its first MaxMask values.
RandomInts(b) == 0..(Min(b, MaxMask) - 1)


(***************************************************************************)
(* df.MultiplicationProver and df.MultiplicationVerifier.                  *)
(***************************************************************************)
nLen == BitLen(N)
b1 == Pow(2, nLen + ChallengeSpaceSize) * T
b2 == Pow(2, B + 2 * nLen + ChallengeSpaceSize)

\* Committer.GetDecommitMsg and the Receivers' Commitment fields.
Commitment1 == ComputeCommit(comm.x1, comm.r1)
Commitment2 == ComputeCommit(comm.x2, comm.r2)
Commitment3 == ComputeCommit(comm.x3, comm.r3)

\* The maskings one GetProofRandomData call may draw.
Maskings ==
    [y1 : RandomInts(b1), y : RandomInts(b1),
     s1 : RandomInts(b2), s2 : RandomInts(b2), s3 : RandomInts(b2)]

\* MultiplicationProver.GetProofRandomData: d1, d2, d3 for the maskings m.
ProofRandomData(m) ==
    LET d1 == ComputeCommit(m.y1, m.s1)
        d2 == ComputeCommit(m.y, m.s2)
        c1 == ComputeCommit(comm.x1, comm.r1)
        l == QRExp(c1, m.y)
        r == QRExp(H, m.s3)
        d3 == QRMul(l, r)
    IN  <<d1, d2, d3>>

\* GetProofData with the operands of r.Sub(r3, r) exchanged.
ProofDataSubSwapped(m, challenge) ==
    LET r == comm.x2 * comm.r1 - comm.r3
    IN  <<challenge * comm.x1 + m.y1, challenge * comm.x2 + m.y,
          challenge * comm.r1 + m.s1, challenge * comm.r2 + m.s2,
          challenge * r + m.s3>>

\* GetProofData that reduces its results modulo N.
ProofDataReduced(m, challenge) ==
    LET r == comm.r3 - comm.x2 * comm.r1
    IN  <<(challenge * comm.x1 + m.y1) % N, (challenge * comm.x2 + m.y) % N,
          (challenge * comm.r1 + m.s1) % N, (challenge * comm.r2 + m.s2) % N,
          (challenge * r + m.s3) % N>>

\* MultiplicationProver.GetProofData: u1, u, v1, v2, v3 over the integers.
ProofData(m, challenge) ==
    LET a1 == comm.x1
        r1 == comm.r1
        a2 == comm.x2
        r2 == comm.r2
        r3 == comm.r3
        u1 == challenge * a1 + m.y1
        u == challenge * a2 + m.y
        v1 == challenge * r1 + m.s1
        v2 == challenge * r2 + m.s2
        r == r3 - a2 * r1
        v3 == challenge * r + m.s3
    IN  <<u1, u, v1, v2, v3>>

\* Verify without the sign branch: H is raised to v3 as it comes.
VerifyTmp2Direct(v3) == [val |-> QRExp(H, v3), exp |-> v3]

\* MultiplicationVerifier.Verify, lines 208-215: H^v3, and the exponent handed
\* to QRSpecialRSA.Exp.
VerifyTmp2(v3) ==
    LET v3Abs == Abs(v3)
    IN  IF v3Abs = v3
        THEN [val |-> QRExp(H, v3), exp |-> v3]
        ELSE [val |-> QRInv(QRExp(H, v3Abs)), exp |-> v3Abs]

\* Verify without its third equation.
VerifyTwoEquations(ch, d, pd) ==
    [ok |-> /\ ComputeCommit(pd[1], pd[3]) = QRMul(d[1], QRExp(Commitment1, ch))
            /\ ComputeCommit(pd[2], pd[4]) = QRMul(d[2], QRExp(Commitment2, ch)),
     negExp |-> \E e \in {pd[1], pd[2], pd[3], pd[4], ch} : e < 0]

\* MultiplicationVerifier.Verify with challenge ch and random data d: the
\* verdict, and whether any exponent handed to Exp was negative.
Verify(ch, d, pd) ==
    LET u1 == pd[1]
        u == pd[2]
        v1 == pd[3]
        v2 == pd[4]
        v3 == pd[5]
        left1 == ComputeCommit(u1, v1)
        right1 == QRMul(d[1], QRExp(Commitment1, ch))
        left2 == ComputeCommit(u, v2)
        right2 == QRMul(d[2], QRExp(Commitment2, ch))
        tmp1 == QRExp(Commitment1, u)
        tmp2 == VerifyTmp2(v3)
        left3 == QRMul(tmp1, tmp2.val)
        right3 == QRMul(d[3], QRExp(Commitment3, ch))
    IN  [ok |-> left1 = right1 /\ left2 = right2 /\ left3 = right3,
         negExp |-> \E e \in {u1, v1, u, v2, ch, tmp2.exp} : e < 0]

Challenges == 0..(Pow(2, ChallengeSpaceSize) - 1)

\* The protocol's sequence; "Committed" is RandomDataSent before the verifier
\* has stored the data.
InOrder(op) ==
    \/ op = "GetProofRandomData" /\ phase = "Init"
    \/ op = "SetProofRandomData" /\ phase = "Committed"
    \/ op \in {"GetChallenge", "SetChallenge"} /\ phase = "RandomDataSent"
    \/ op = "GetProofData" /\ phase = "ChallengeSet"
    \/ op = "Verify" /\ phase = "ResponseSent"

\* A call is made when it is the next of the sequence, or as one of the
\* spare calls outside it.
MayCall(op) == InOrder(op) \/ spare > 0

Called(op, out, next) ==
    /\ last' = [op |-> op, out |-> out, inOrder |-> InOrder(op), negExp |-> FALSE]
    /\ phase' = IF InOrder(op) THEN next ELSE phase
    /\ spare' = IF InOrder(op) THEN spare ELSE spare - 1

\* GetProofRandomData that keeps the maskings of an earlier call.
StoreMaskingsOnce(old, m) == IF IsNil(old) THEN Some(m) ELSE old

\* The assignments to p.y1, p.y, p.s1, p.s2, p.s3: every call replaces all.
StoreMaskings(old, m) == Some(m)

MulGetProofRandomData ==
    /\ MayCall("GetProofRandomData")
    /\ \E m \in Maskings :
        /\ mp' = StoreMaskings(mp, m)
        /\ wire' = [wire EXCEPT !.rand = Some(ProofRandomData(m))]
    /\ Called("GetProofRandomData", "ok", "Committed")
    /\ UNCHANGED <<goExp, schVars, posVars, comm, mv>>

MulSetProofRandomData ==
    /\ MayCall("SetProofRandomData")
    /\ ~IsNil(wire.rand)
    /\ mv' = [mv EXCEPT !.d = wire.rand]
    /\ Called("SetProofRandomData", "ok", "RandomDataSent")
    /\ UNCHANGED <<goExp, schVars, posVars, comm, mp, wire>>

MulGetChallenge ==
    /\ MayCall("GetChallenge")
    /\ \E challenge \in RandomInts(Pow(2, ChallengeSpaceSize)) :
        /\ mv' = [mv EXCEPT !.challenge = Some(challenge)]
        /\ wire' = [wire EXCEPT !.chal = Some(challenge)]
    /\ Called("GetChallenge", "ok", "ChallengeSet")
    /\ UNCHANGED <<goExp, schVars, posVars, comm, mp>>

MulSetChallenge ==
    /\ MayCall("SetChallenge")
    /\ \E challenge \in Challenges :
        /\ mv' = [mv EXCEPT !.challenge = Some(challenge)]
        /\ wire' = [wire EXCEPT !.chal = Some(challenge)]
    /\ Called("SetChallenge", "ok", "ChallengeSet")
    /\ UNCHANGED <<goExp, schVars, posVars, comm, mp>>

\* u1.Add(u1, p.y1) dereferences p.y1: a nil masking panics.
MulGetProofData ==
    /\ MayCall("GetProofData")
    /\ \E challenge \in (IF IsNil(wire.chal) THEN Challenges ELSE {Val(wire.chal)}) :
        IF IsNil(mp)
        THEN /\ Called("GetProofData", "panic", "ResponseSent")
             /\ UNCHANGED wire
        ELSE /\ Called("GetProofData", "ok", "ResponseSent")
             /\ wire' = [wire EXCEPT !.resp = Some(ProofData(Val(mp), challenge))]
    /\ UNCHANGED <<goExp, schVars, posVars, comm, mp, mv>>

\* Exp(c, v.challenge) and Mul(v.d1, ...) dereference their arguments: a nil
\* challenge or nil random data panics.
MulVerify ==
    /\ MayCall("Verify")
    /\ LET pd == IF IsNil(wire.resp) THEN <<0, 0, 0, 0, 0>> ELSE Val(wire.resp)
       IN  IF IsNil(mv.challenge) \/ IsNil(mv.d)
           THEN Called("Verify", "panic", "Rejected")
           ELSE LET res == Verify(Val(mv.challenge), Val(mv.d), pd)
                IN  /\ last' = [op |-> "Verify",
                                out |-> IF res.ok THEN "true" ELSE "false",
                                inOrder |-> InOrder("Verify"),
                                negExp |-> res.negExp]
                    /\ phase' = IF ~InOrder("Verify") THEN phase
                                ELSE IF res.ok THEN "Verified" ELSE "Rejected"
                    /\ spare' = IF InOrder("Verify") THEN spare ELSE spare - 1
    /\ UNCHANGED <<goExp, schVars, posVars, comm, mp, mv, wire>>

\* The objects of a pair that takes no part in a specification stay as built.
IdleMul ==
    /\ comm = [x1 |-> 0, x2 |-> 0, x3 |-> 0, r1 |-> 0, r2 |-> 0, r3 |-> 0]
    /\ mp = Nil
    /\ mv = [challenge |-> Nil, d |-> Nil]

IdleSchnorr ==
    /\ sch = [secrets |-> <<>>, bases |-> <<>>, y |-> 1]
    /\ sp = [built |-> FALSE, randomVals |-> Nil]
    /\ sv = [proofRandomData |-> Nil, bases |-> Nil, y |-> Nil, challenge |-> Nil]

IdlePositive ==
    /\ pw = [x |-> 0, r |-> 0]
    /\ pp = Nil
    /\ pn = 0
    /\ pv = [built |-> FALSE, made |-> 0, squareVerifiers |-> <<>>, c |-> 1,
             small |-> <<>>, big |-> <<>>, invoked |-> {}]

Fresh(ph, n) ==
    /\ wire = [rand |-> Nil, chal |-> Nil, resp |-> Nil]
    /\ last = [op |-> "New", out |-> "ok", inOrder |-> TRUE, negExp |-> FALSE]
    /\ phase = ph
    /\ spare = n

Committers ==
    [x1 : 0..MaxX, x2 : 0..MaxX, x3 : 0..MaxX,
     r1 : 0..MaxR, r2 : 0..MaxR, r3 : 0..MaxR]

Init ==
    /\ goExp = "one"
    /\ comm \in Committers
    /\ mp = Nil
    /\ mv = [challenge |-> Nil, d |-> Nil]
    /\ IdleSchnorr /\ IdlePositive
    /\ Fresh("Init", 0)

Next ==
    \/ MulGetProofRandomData
    \/ MulSetProofRandomData
    \/ MulGetChallenge
    \/ MulSetChallenge
    \/ MulGetProofData
    \/ MulVerify

\* The honest session: every call in the protocol's order.
Spec == Init /\ [][Next]_vars

\* SetChallenge stores whatever integer it is given (a hash, with Fiat-Shamir):
\* the order of G and an integer above N are two of them.
LargeChallenges == {Ord(G), N + 1}

MulSetLargeChallenge ==
    /\ MayCall("SetChallenge")
    /\ \E challenge \in LargeChallenges :
        /\ mv' = [mv EXCEPT !.challenge = Some(challenge)]
        /\ wire' = [wire EXCEPT !.chal = Some(challenge)]
    /\ Called("SetChallenge", "ok", "ChallengeSet")
    /\ UNCHANGED <<goExp, schVars, posVars, comm, mp>>

NextExact ==
    \/ Next
    \/ MulSetLargeChallenge

\* The honest session with challenges of any size.
SpecExact == Init /\ [][NextExact]_vars

\* Sessions in which the caller makes up to MaxMisuse calls outside the order.
InitOrder ==
    /\ goExp = "one"
    /\ comm \in {c \in Committers : /\ c.x1 = MaxX /\ c.x2 = MaxX /\ c.r1 = MaxR
                                    /\ c.r2 = 0 /\ c.r3 = 0}
    /\ mp = Nil
    /\ mv = [challenge |-> Nil, d |-> Nil]
    /\ IdleSchnorr /\ IdlePositive
    /\ Fresh("Init", MaxMisuse)

SpecOrder == InitOrder /\ [][Next]_vars

(***************************************************************************)
(* A forger between prover and verifier: after an honest run up to the     *)
(* response, one element of the response is replaced, or the verifier's    *)
(* challenge is set to another value, and Verify is called.                *)
(***************************************************************************)
MulHonestResponse == ProofData(Val(mp), Val(wire.chal))
MulUntouched == wire.resp = Some(MulHonestResponse) /\ mv.challenge = wire.chal

\* The integers a forger may put for response element i: v3 may be negative.
MulForgedInts(i) == IF i = 5 THEN (-MaxTamper)..MaxTamper ELSE 0..MaxTamper

MulTamperResponse ==
    /\ phase = "ResponseSent"
    /\ MulUntouched
    /\ \E i \in 1..5 : \E e \in MulForgedInts(i) :
        /\ e # Val(wire.resp)[i]
        /\ wire' = [wire EXCEPT !.resp = Some([Val(wire.resp) EXCEPT ![i] = e])]
    /\ last' = [op |-> "Tamper", out |-> "ok", inOrder |-> FALSE, negExp |-> FALSE]
    /\ UNCHANGED <<goExp, schVars, posVars, mulVars, phase, spare>>

\* MultiplicationVerifier.SetChallenge called again, with another value.
MulSubstituteChallenge ==
    /\ phase = "ResponseSent"
    /\ MulUntouched
    /\ \E challenge \in 0..MaxTamper :
        /\ challenge # Val(mv.challenge)
        /\ mv' = [mv EXCEPT !.challenge = Some(challenge)]
    /\ last' = [op |-> "SetChallenge", out |-> "ok", inOrder |-> FALSE, negExp |-> FALSE]
    /\ UNCHANGED <<goExp, schVars, posVars, comm, mp, wire, phase, spare>>

InitMulTamper ==
    /\ goExp = "one"
    /\ comm \in {c \in Committers : c.x3 = c.x1 * c.x2}
    /\ mp = Nil
    /\ mv = [challenge |-> Nil, d |-> Nil]
    /\ IdleSchnorr /\ IdlePositive
    /\ Fresh("Init", 0)

NextMulTamper ==
    \/ Next
    \/ MulTamperResponse
    \/ MulSubstituteChallenge

SpecMulTamper == InitMulTamper /\ [][NextMulTamper]_vars


(***************************************************************************)
(* schnorr.Group, schnorr.Prover and schnorr.Verifier.  The group is the   *)
(* subgroup of order Q = 5 of Z_31^*, {1,2,4,8,16}; as with the DSA-sized  *)
(* parameters of the library, Q * Q < P.  Group.Mul multiplies modulo P,   *)
(* on group elements and on exponents alike; Group.Add adds modulo Q.      *)
(***************************************************************************)
P == 31
Q == 5
SchnorrBases == {g \in 2..(P - 1) : ModExp(g, Q, P) = 1}

GroupMul(a, b) == (a * b) % P
GroupAdd(a, b) == (a + b) % Q
GroupExp(b, e) == ModExp(b, e, P)

\* y = g_1^x_1 * ... * g_k^x_k, the value the caller of NewProver hands in.
RECURSIVE Representation(_, _, _)
Representation(bases, secrets, i) ==
    IF i > Len(bases) \/ i > Len(secrets) THEN 1
    ELSE GroupMul(GroupExp(bases[i], secrets[i]), Representation(bases, secrets, i + 1))

\* Prover.GetProofRandomData: t for the random values drawn.
RECURSIVE SchnorrRandomData(_, _, _)
SchnorrRandomData(bases, randomVals, i) ==
    IF i = 0 THEN 1
    ELSE GroupMul(SchnorrRandomData(bases, randomVals, i - 1),
                  GroupExp(bases[i], randomVals[i]))

\* GetProofData that leaves the random value out of z_i.
SchnorrProofDataNoMask(secrets, randomVals, challenge) ==
    [i \in 1..Len(secrets) |-> GroupMul(challenge, secrets[i])]

\* Prover.GetProofData: z_i = Add(Mul(challenge, secrets[i]), randomVals[i]).
SchnorrProofData(secrets, randomVals, challenge) ==
    [i \in 1..Len(secrets) |->
        GroupAdd(GroupMul(challenge, secrets[i]), randomVals[i])]

RECURSIVE SchnorrLeft(_, _, _)
SchnorrLeft(bases, proofData, i) ==
    IF i = 0 THEN 1
    ELSE GroupMul(SchnorrLeft(bases, proofData, i - 1),
                  GroupExp(bases[i], proofData[i]))

\* Verify that compares only the first base's power.
SchnorrVerifyFirstBase(v, proofData) ==
    GroupExp(v.bases[1], proofData[1])
        = GroupMul(GroupExp(Val(v.y), Val(v.challenge)), Val(v.proofRandomData))

\* Verifier.Verify on a verifier v with every field set.
SchnorrVerify(v, proofData) ==
    LET left == SchnorrLeft(v.bases, proofData, Len(v.bases))
        right == GroupMul(GroupExp(Val(v.y), Val(v.challenge)), Val(v.proofRandomData))
    IN  left = right

\* NewProver that returns a prover whatever the lengths are.
NewProverUnchecked(secrets, bases) == "ok"

\* NewProver(group, secrets, bases, y): an error and no prover when the
\* numbers of secrets and bases differ.
NewProver(secrets, bases) ==
    IF Len(secrets) # Len(bases) THEN "error" ELSE "ok"

SchnorrNewProver ==
    /\ phase = "Start"
    /\ last.op = "New"
    /\ IF NewProver(sch.secrets, sch.bases) = "error"
       THEN /\ last' = [op |-> "NewProver", out |-> "error", inOrder |-> TRUE,
                        negExp |-> FALSE]
            /\ UNCHANGED <<sp, phase>>
       ELSE /\ last' = [op |-> "NewProver", out |-> "ok", inOrder |-> TRUE,
                        negExp |-> FALSE]
            /\ sp' = [built |-> TRUE, randomVals |-> Nil]
            /\ phase' = "Init"
    /\ UNCHANGED <<goExp, mulVars, posVars, sch, sv, wire, spare>>

SchnorrGetProofRandomData ==
    /\ sp.built
    /\ MayCall("GetProofRandomData")
    /\ \E randomVals \in [1..Len(sch.bases) -> RandomInts(Q)] :
        /\ sp' = [sp EXCEPT !.randomVals = Some(randomVals)]
        /\ wire' = [wire EXCEPT
                      !.rand = Some(SchnorrRandomData(sch.bases, randomVals, Len(sch.bases)))]
    /\ Called("GetProofRandomData", "ok", "Committed")
    /\ UNCHANGED <<goExp, mulVars, posVars, sch, sv>>

SchnorrSetProofRandomData ==
    /\ MayCall("SetProofRandomData")
    /\ ~IsNil(wire.rand)
    /\ sv' = [sv EXCEPT !.proofRandomData = wire.rand, !.bases = sch.bases,
                        !.y = Some(sch.y)]
    /\ Called("SetProofRandomData", "ok", "RandomDataSent")
    /\ UNCHANGED <<goExp, mulVars, posVars, sch, sp, wire>>

SchnorrGetChallenge ==
    /\ MayCall("GetChallenge")
    /\ \E challenge \in RandomInts(Q) :
        /\ sv' = [sv EXCEPT !.challenge = Some(challenge)]
        /\ wire' = [wire EXCEPT !.chal = Some(challenge)]
    /\ Called("GetChallenge", "ok", "ChallengeSet")
    /\ UNCHANGED <<goExp, mulVars, posVars, sch, sp>>

SchnorrSetChallenge ==
    /\ MayCall("SetChallenge")
    /\ \E challenge \in 0..(Q - 1) :
        /\ sv' = [sv EXCEPT !.challenge = Some(challenge)]
        /\ wire' = [wire EXCEPT !.chal = Some(challenge)]
    /\ Called("SetChallenge", "ok", "ChallengeSet")
    /\ UNCHANGED <<goExp, mulVars, posVars, sch, sp>>

\* p.randomVals[i] on the nil slice of a prover that drew nothing panics.
SchnorrGetProofData ==
    /\ sp.built
    /\ MayCall("GetProofData")
    /\ \E challenge \in (IF IsNil(wire.chal) THEN 0..(Q - 1) ELSE {Val(wire.chal)}) :
        IF IsNil(sp.randomVals) /\ Len(sch.bases) > 0
        THEN /\ Called("GetProofData", "panic", "ResponseSent")
             /\ UNCHANGED wire
        ELSE /\ Called("GetProofData", "ok", "ResponseSent")
             /\ wire' = [wire EXCEPT !.resp =
                  Some(SchnorrProofData(sch.secrets, Val(sp.randomVals), challenge))]
    /\ UNCHANGED <<goExp, mulVars, posVars, sch, sp, sv>>

\* Exp(v.y, v.challenge) and Mul(right, v.proofRandomData) dereference their
\* arguments, and proofData[i] must exist for every base.
SchnorrCallVerify ==
    /\ MayCall("Verify")
    /\ LET proofData == IF IsNil(wire.resp) THEN <<>> ELSE Val(wire.resp)
       IN  IF \/ IsNil(sv.challenge) \/ IsNil(sv.y) \/ IsNil(sv.proofRandomData)
              \/ Len(proofData) < Len(sv.bases)
           THEN Called("Verify", "panic", "Rejected")
           ELSE LET ok == SchnorrVerify(sv, proofData)
                IN  Called("Verify", IF ok THEN "true" ELSE "false",
                           IF ok THEN "Verified" ELSE "Rejected")
    /\ UNCHANGED <<goExp, mulVars, posVars, sch, sp, sv, wire>>

\* The representations a caller may ask a proof for: k bases of order Q,
\* k secrets of [0, Q), and y their product of powers.
SchnorrStatements ==
    UNION {
        {[secrets |-> x, bases |-> g, y |-> Representation(g, x, 1)] :
            x \in [1..k -> 0..(Q - 1)], g \in [1..k -> SchnorrBases]}
        : k \in 1..MaxK}

InitSchnorr ==
    /\ goExp = "one"
    /\ IdleMul /\ IdlePositive
    /\ sch \in SchnorrStatements
    /\ sp = [built |-> FALSE, randomVals |-> Nil]
    /\ sv = [proofRandomData |-> Nil, bases |-> Nil, y |-> Nil, challenge |-> Nil]
    /\ Fresh("Start", 0)

NextSchnorr ==
    \/ SchnorrNewProver
    \/ SchnorrGetProofRandomData
    \/ SchnorrSetProofRandomData
    \/ SchnorrGetChallenge
    \/ SchnorrSetChallenge
    \/ SchnorrGetProofData
    \/ SchnorrCallVerify

SpecSchnorr == InitSchnorr /\ [][NextSchnorr]_vars

\* The arguments a caller may hand to NewProver: up to MaxK secrets and up to
\* MaxK bases, as many of the one as of the other or not.
SchnorrArguments ==
    UNION {
        {[secrets |-> x, bases |-> g, y |-> Representation(g, x, 1)] :
            x \in [1..j -> 0..(Q - 1)], g \in [1..k -> SchnorrBases]}
        : j \in 0..MaxK, k \in 0..MaxK}

InitSchnorrNew ==
    /\ goExp = "one"
    /\ IdleMul /\ IdlePositive
    /\ sch \in SchnorrArguments
    /\ sp = [built |-> FALSE, randomVals |-> Nil]
    /\ sv = [proofRandomData |-> Nil, bases |-> Nil, y |-> Nil, challenge |-> Nil]
    /\ Fresh("Start", 0)

SpecSchnorrNew == InitSchnorrNew /\ [][NextSchnorr]_vars

\* The forger of the representation proof.
SchnorrHonestResponse == SchnorrProofData(sch.secrets, Val(sp.randomVals), Val(wire.chal))
SchnorrUntouched == wire.resp = Some(SchnorrHonestResponse) /\ sv.challenge = wire.chal

SchnorrTamperResponse ==
    /\ phase = "ResponseSent"
    /\ SchnorrUntouched
    /\ \E i \in 1..Len(Val(wire.resp)) : \E e \in 0..MaxTamper :
        /\ e # Val(wire.resp)[i]
        /\ wire' = [wire EXCEPT !.resp = Some([Val(wire.resp) EXCEPT ![i] = e])]
    /\ last' = [op |-> "Tamper", out |-> "ok", inOrder |-> FALSE, negExp |-> FALSE]
    /\ UNCHANGED <<goExp, mulVars, posVars, schVars, phase, spare>>

\* Verifier.SetChallenge called again, with another value.
SchnorrSubstituteChallenge ==
    /\ phase = "ResponseSent"
    /\ SchnorrUntouched
    /\ \E challenge \in 0..MaxTamper :
        /\ challenge # Val(sv.challenge)
        /\ sv' = [sv EXCEPT !.challenge = Some(challenge)]
    /\ last' = [op |-> "SetChallenge", out |-> "ok", inOrder |-> FALSE, negExp |-> FALSE]
    /\ UNCHANGED <<goExp, mulVars, posVars, sch, sp, wire, phase, spare>>

NextSchnorrTamper ==
    \/ NextSchnorr
    \/ SchnorrTamperResponse
    \/ SchnorrSubstituteChallenge

SpecSchnorrTamper == InitSchnorr /\ [][NextSchnorrTamper]_vars

(***************************************************************************)
(* Sessions of either pair in which the caller calls GetProofRandomData    *)
(* again, up to MaxMisuse times, at any point of the sequence.             *)
(***************************************************************************)
InitSchnorrRecommit ==
    /\ goExp = "one"
    /\ IdleMul /\ IdlePositive
    /\ sch \in {st \in SchnorrStatements :
                    \A i \in 1..Len(st.bases) :
                        st.secrets[i] = Q - 1 /\ st.bases[i] = st.bases[1]}
    /\ sp = [built |-> FALSE, randomVals |-> Nil]
    /\ sv = [proofRandomData |-> Nil, bases |-> Nil, y |-> Nil, challenge |-> Nil]
    /\ Fresh("Start", MaxMisuse)

InitRecommit == InitOrder \/ InitSchnorrRecommit

\* A session of the representation proof begins at NewProver.
SchnorrSession == phase = "Start" \/ sp.built

\* The only call made outside the sequence is GetProofRandomData.
InOrderOrRecommit == spare' = spare \/ last'.op = "GetProofRandomData"

NextRecommit ==
    \/ ~SchnorrSession /\ MulGetProofRandomData /\ InOrderOrRecommit
    \/ ~SchnorrSession /\ MulSetProofRandomData /\ InOrderOrRecommit
    \/ ~SchnorrSession /\ MulGetChallenge /\ InOrderOrRecommit
    \/ ~SchnorrSession /\ MulSetChallenge /\ InOrderOrRecommit
    \/ ~SchnorrSession /\ MulGetProofData /\ InOrderOrRecommit
    \/ ~SchnorrSession /\ MulVerify /\ InOrderOrRecommit
    \/ SchnorrSession /\ SchnorrNewProver /\ InOrderOrRecommit
    \/ SchnorrSession /\ SchnorrGetProofRandomData /\ InOrderOrRecommit
    \/ SchnorrSession /\ SchnorrSetProofRandomData /\ InOrderOrRecommit
    \/ SchnorrSession /\ SchnorrGetChallenge /\ InOrderOrRecommit
    \/ SchnorrSession /\ SchnorrSetChallenge /\ InOrderOrRecommit
    \/ SchnorrSession /\ SchnorrGetProofData /\ InOrderOrRecommit
    \/ SchnorrSession /\ SchnorrCallVerify /\ InOrderOrRecommit

SpecRecommit == InitRecommit /\ [][NextRecommit]_vars

(***************************************************************************)
(* df.PositiveProver and df.PositiveVerifier: construction.                *)
(***************************************************************************)
RECURSIVE Sum(_, _)
Sum(f, i) == IF i = 0 THEN 0 ELSE f[i] + Sum(f, i - 1)

\* The product in QR_N of the first n elements of a list.
RECURSIVE Product(_, _)
Product(f, n) == IF n = 0 THEN 1 ELSE QRMul(Product(f, n - 1), f[n])

\* lipmaaDecomposition: four roots whose squares sum to x, none for x < 0.
lipmaaDecomposition(x) ==
    IF x < 0 THEN {}
    ELSE {roots \in [1..4 -> 0..x] :
            Sum([i \in 1..4 |-> roots[i] * roots[i]], 4) = x}

\* The loop of getCommitRandoms with k shares to go: every iteration calls
\* GetRandomInt(boundary), which has nothing to return for boundary 0.
RECURSIVE CommitRandomsFrom(_, _)
CommitRandomsFrom(boundary, k) ==
    IF k = 0 THEN {<<>>}
    ELSE IF RandomInts(boundary) = {} THEN {}
    ELSE IF k = 1 THEN {<<boundary>>}
    ELSE UNION {{<<d>> \o rest : rest \in CommitRandomsFrom(boundary - d, k - 1)}
                    : d \in RandomInts(boundary)}

\* getCommitRandoms(r, nRoots): the slices it may return; none when it panics.
getCommitRandoms(r, nRoots) ==
    LET rAbs == Abs(r)
        rs == CommitRandomsFrom(rAbs, nRoots)
    IN  IF rAbs # r
        THEN {[i \in 1..nRoots |-> -elem[i]] : elem \in rs}
        ELSE rs

\* NewSquareProver's SmallCommitment: a commitment to the root.
SmallCommitments(roots) ==
    {[i \in 1..4 |-> ComputeCommit(roots[i], rho[i])] : rho \in [1..4 -> RandomInts(b2)]}

\* NewPositiveProver that creates its sub-committers before it looks at the
\* decomposition's error.
NewPositiveProverCommitFirst(x, r) ==
    IF lipmaaDecomposition(x) = {}
    THEN {[out |-> "error", made |-> 4, prover |-> Nil]}
    ELSE {[out |-> "panic", made |-> 0, prover |-> Nil]}

\* NewPositiveProver(committer, x, r, challengeSpaceSize): its outcomes, with
\* the sub-committers made by then.  It returns at the decomposition's error
\* before anything else, and getCommitRandoms runs before the first
\* NewCommitter.
NewPositiveProver(x, r) ==
    IF lipmaaDecomposition(x) = {}
    THEN {[out |-> "error", made |-> 0, prover |-> Nil]}
    ELSE IF getCommitRandoms(r, 4) = {}
    THEN {[out |-> "panic", made |-> 0, prover |-> Nil]}
    ELSE UNION {{[out |-> "ok", made |-> 4,
                  prover |-> Some([roots |-> roots, rs |-> rs,
                                   smallCommitments |-> small,
                                   bigCommitments |->
                                       [i \in 1..4 |->
                                           ComputeCommit(roots[i] * roots[i], rs[i])]])]
                    : rs \in getCommitRandoms(r, 4), small \in SmallCommitments(roots)}
                : roots \in lipmaaDecomposition(x)}

\* NewPositiveVerifier(receiver, c, small, big, challengeSpaceSize): its
\* outcome, the receivers created by then, and the verifier's sub-verifiers.
\* bigCommitments[i] past the end of big panics in the check, receivers[i]
\* past nRoots panics after nRoots + 1 receivers were created.
NewPositiveVerifier(c, small, big) ==
    LET nRoots == Len(small)
    IN  IF Len(big) < nRoots
        THEN [out |-> "panic", made |-> 0, squareVerifiers |-> <<>>]
        ELSE IF c # Product(big, nRoots)
        THEN [out |-> "error", made |-> 0, squareVerifiers |-> <<>>]
        ELSE IF Len(big) > nRoots
        THEN [out |-> "panic", made |-> nRoots + 1, squareVerifiers |-> <<>>]
        ELSE [out |-> "ok", made |-> nRoots,
              squareVerifiers |-> [i \in 1..nRoots |-> [sub |-> i, c |-> big[i], rand |-> Nil,
                                                         challenge |-> Nil]]]

PosNewProver ==
    /\ phase = "Start"
    /\ IsNil(pp)
    /\ last.op = "New"
    /\ \E res \in NewPositiveProver(pw.x, pw.r) :
        /\ pp' = res.prover
        /\ pn' = res.made
        /\ last' = [op |-> "NewPositiveProver", out |-> res.out, inOrder |-> TRUE,
                    negExp |-> FALSE]
    /\ UNCHANGED <<goExp, mulVars, schVars, pw, pv, wire, phase, spare>>

\* The verifier a call of NewPositiveVerifier leaves, with the call's arguments.
PosVerifierAfter(c, small, big) ==
    LET res == NewPositiveVerifier(c, small, big)
    IN  [built |-> res.out = "ok", made |-> res.made,
         squareVerifiers |-> res.squareVerifiers,
         c |-> c, small |-> small, big |-> big, invoked |-> {}]

PosCallNewVerifier(c, small, big) ==
    LET res == NewPositiveVerifier(c, small, big)
    IN  /\ pv' = PosVerifierAfter(c, small, big)
        /\ last' = [op |-> "NewPositiveVerifier", out |-> res.out, inOrder |-> TRUE,
                    negExp |-> FALSE]
        /\ phase' = IF res.out = "ok" THEN "Init" ELSE "Failed"
        /\ UNCHANGED <<goExp, mulVars, schVars, pw, pp, pn, wire, spare>>

\* The verifier built from the prover's GetVerifierInitializationData and the
\* commitment c = G^x * H^r.
PosNewVerifier ==
    /\ phase = "Start"
    /\ ~IsNil(pp)
    /\ PosCallNewVerifier(ComputeCommit(pw.x, pw.r),
                          Val(pp).smallCommitments, Val(pp).bigCommitments)

\* The verifier built from lists a forger sends.
ForgedLists(elems) == UNION {[1..n -> elems] : n \in 0..MaxList}

PosNewVerifierForged ==
    /\ phase = "Start"
    /\ IsNil(pp)
    /\ last.op = "New"
    /\ \E c \in {1, H} : \E small \in ForgedLists({1}) : \E big \in ForgedLists({1, H}) :
        PosCallNewVerifier(c, small, big)

NoVerifier ==
    [built |-> FALSE, made |-> 0, squareVerifiers |-> <<>>, c |-> 1,
     small |-> <<>>, big |-> <<>>, invoked |-> {}]

InitPositive ==
    /\ goExp \in {"one", "inverse"}
    /\ IdleMul /\ IdleSchnorr
    /\ pw \in [x : (-MaxPosX)..MaxPosX, r : (-MaxPosR)..MaxPosR]
    /\ pp = Nil
    /\ pn = 0
    /\ pv = NoVerifier
    /\ Fresh("Start", 0)

NextPositive ==
    \/ PosNewProver
    \/ PosNewVerifier
    \/ PosNewVerifierForged

SpecPositive == InitPositive /\ [][NextPositive]_vars

(***************************************************************************)
(* df.PositiveProver and df.PositiveVerifier: the three moves.  The square *)
(* sub-proof is an ideal one: sub-prover i's messages are tokens, and       *)
(* sub-verifier i accepts exactly the tokens sub-prover i makes.            *)
(***************************************************************************)
\* SquareProver.GetProofRandomData of sub-prover i.
SquareProofRandomData(i) == <<10 * i + 1, 10 * i + 2>>

\* SquareProver.GetProofData(challenge) of sub-prover i: s1, s21, s22.
SquareProofData(i, challenge) ==
    <<100 * i + 10 + challenge, 100 * i + 20 + challenge, 100 * i + 30 + challenge>>

\* SquareVerifier.Verify(s1, s21, s22).
SquareVerify(verifier, s1, s21, s22) ==
    /\ verifier.rand = Some(SquareProofRandomData(verifier.sub))
    /\ ~IsNil(verifier.challenge)
    /\ <<s1, s21, s22>> = SquareProofData(verifier.sub, Val(verifier.challenge))

\* PositiveProver.GetProofRandomData: 2 elements per sub-prover.
PosProofRandomData ==
    [j \in 1..8 |-> SquareProofRandomData((j + 1) \div 2)[2 - (j % 2)]]

\* PositiveProver.GetProofData(challenges): 3 elements per sub-prover;
\* challenges[i] past the end of challenges panics.
PosProofData(challenges) ==
    IF Len(challenges) < 4 THEN Nil
    ELSE Some([j \in 1..12 |->
                SquareProofData((j + 2) \div 3, challenges[(j + 2) \div 3])[((j - 1) % 3) + 1]])

\* SetProofRandomData that hands sub-verifier i elements 2i+1 and 2i, in this
\* order.
PosSetRandomDataSwapped(v, proofRandomData) ==
    IF Len(proofRandomData) # 8
    THEN [out |-> "error", squareVerifiers |-> v.squareVerifiers]
    ELSE [out |-> IF Len(v.squareVerifiers) > 4 THEN "panic" ELSE "ok",
          squareVerifiers |->
            [i \in 1..Len(v.squareVerifiers) |->
                IF i <= 4
                THEN [v.squareVerifiers[i] EXCEPT
                        !.rand = Some(<<proofRandomData[2 * i], proofRandomData[2 * i - 1]>>)]
                ELSE v.squareVerifiers[i]]]

\* PositiveVerifier.SetProofRandomData(proofRandomData): elements 2i, 2i+1 go
\* to sub-verifier i; proofRandomData[2*i] past the end panics, after the
\* sub-verifiers before it were given theirs.
PosSetRandomData(v, proofRandomData) ==
    IF Len(proofRandomData) # 8
    THEN [out |-> "error", squareVerifiers |-> v.squareVerifiers]
    ELSE [out |-> IF Len(v.squareVerifiers) > 4 THEN "panic" ELSE "ok",
          squareVerifiers |->
            [i \in 1..Len(v.squareVerifiers) |->
                IF i <= 4
                THEN [v.squareVerifiers[i] EXCEPT
                        !.rand = Some(<<proofRandomData[2 * i - 1], proofRandomData[2 * i]>>)]
                ELSE v.squareVerifiers[i]]]

\* The loop of PositiveVerifier.Verify from sub-verifier i on: && does not
\* evaluate its right side once verified is false, and proofData[3*i] past
\* the end panics.  invoked are the sub-verifiers whose Verify was called.
RECURSIVE PosVerifyLoop(_, _, _, _, _)
PosVerifyLoop(squareVerifiers, proofData, i, verified, invoked) ==
    IF i > Len(squareVerifiers)
    THEN [out |-> IF verified THEN "true" ELSE "false", invoked |-> invoked]
    ELSE IF ~verified
    THEN PosVerifyLoop(squareVerifiers, proofData, i + 1, FALSE, invoked)
    ELSE IF 3 * i > Len(proofData)
    THEN [out |-> "panic", invoked |-> invoked]
    ELSE PosVerifyLoop(squareVerifiers, proofData, i + 1,
                       SquareVerify(squareVerifiers[i], proofData[3 * i - 2],
                                    proofData[3 * i - 1], proofData[3 * i]),
                       invoked \cup {i})

\* PositiveVerifier.Verify(proofData).
PosVerify(v, proofData) ==
    IF Len(proofData) # 12
    THEN [out |-> "false", invoked |-> {}]
    ELSE PosVerifyLoop(v.squareVerifiers, proofData, 1, TRUE, {})

PosStep(op, out, next) ==
    /\ last' = [op |-> op, out |-> out, inOrder |-> TRUE, negExp |-> FALSE]
    /\ phase' = next
    /\ UNCHANGED <<goExp, mulVars, schVars, pw, pp, pn, spare>>

PosGetProofRandomData ==
    /\ phase = "Init"
    /\ ~IsNil(pp)
    /\ wire' = [wire EXCEPT !.rand = Some(PosProofRandomData)]
    /\ pv' = pv
    /\ PosStep("GetProofRandomData", "ok", "Committed")

\* What a forger sends in place of a message: the message with one element
\* replaced, cut short by one or extended by one.
Forgeries(msg) ==
    {[msg EXCEPT ![j] = 0] : j \in 1..Len(msg)}
        \cup {SubSeq(msg, 1, Len(msg) - 1), msg \o <<0>>}

PosForgeRandomData ==
    /\ phase = "Init"
    /\ \E f \in Forgeries(PosProofRandomData) :
        wire' = [wire EXCEPT !.rand = Some(f)]
    /\ pv' = pv
    /\ PosStep("ForgeRandomData", "ok", "Committed")

PosSetProofRandomData ==
    /\ phase = "Committed"
    /\ LET res == PosSetRandomData(pv, Val(wire.rand))
       IN  /\ pv' = [pv EXCEPT !.squareVerifiers = res.squareVerifiers]
           /\ PosStep("SetProofRandomData", res.out,
                      IF res.out = "ok" THEN "RandomDataSent" ELSE "Failed")
    /\ wire' = wire

\* PositiveVerifier.GetChallenges: every sub-verifier draws its challenge.
PosGetChallenges ==
    /\ phase = "RandomDataSent"
    /\ \E challenges \in [1..Len(pv.squareVerifiers) -> Challenges] :
        /\ pv' = [pv EXCEPT !.squareVerifiers =
                    [i \in 1..Len(pv.squareVerifiers) |->
                        [pv.squareVerifiers[i] EXCEPT !.challenge = Some(challenges[i])]]]
        /\ wire' = [wire EXCEPT !.chal = Some(challenges)]
    /\ PosStep("GetChallenges", "ok", "ChallengeSet")

\* PositiveVerifier.SetChallenges(challenges), for challenges the prover made
\* by hashing: challenges[i] past the end of challenges panics.
PosSetChallenges ==
    /\ phase = "RandomDataSent"
    /\ \E k \in {3, 4} : \E challenges \in [1..k -> Challenges] :
        IF Len(challenges) < Len(pv.squareVerifiers)
        THEN /\ pv' = [pv EXCEPT !.squareVerifiers =
                        [i \in 1..Len(pv.squareVerifiers) |->
                            IF i <= Len(challenges)
                            THEN [pv.squareVerifiers[i] EXCEPT
                                    !.challenge = Some(challenges[i])]
                            ELSE pv.squareVerifiers[i]]]
             /\ wire' = [wire EXCEPT !.chal = Some(challenges)]
             /\ PosStep("SetChallenges", "panic", "Failed")
        ELSE /\ pv' = [pv EXCEPT !.squareVerifiers =
                        [i \in 1..Len(pv.squareVerifiers) |->
                            [pv.squareVerifiers[i] EXCEPT !.challenge = Some(challenges[i])]]]
             /\ wire' = [wire EXCEPT !.chal = Some(challenges)]
             /\ PosStep("SetChallenges", "ok", "ChallengeSet")

PosGetProofData ==
    /\ phase = "ChallengeSet"
    /\ ~IsNil(pp)
    /\ LET res == PosProofData(Val(wire.chal))
       IN  IF IsNil(res)
           THEN wire' = wire /\ PosStep("GetProofData", "panic", "Failed")
           ELSE /\ wire' = [wire EXCEPT !.resp = res]
                /\ PosStep("GetProofData", "ok", "ResponseSent")
    /\ pv' = pv

\* The response sub-provers 1..4 make to the challenges drawn, 0 standing in
\* for the challenge of a sub-verifier the verifier does not have.
PosResponseTo(challenges) ==
    Val(PosProofData([i \in 1..4 |-> IF i <= Len(challenges) THEN challenges[i] ELSE 0]))

PosForgeResponse ==
    /\ phase = "ChallengeSet"
    /\ \E f \in Forgeries(PosResponseTo(Val(wire.chal))) \cup {PosResponseTo(Val(wire.chal))} :
        wire' = [wire EXCEPT !.resp = Some(f)]
    /\ pv' = pv
    /\ PosStep("ForgeResponse", "ok", "ResponseSent")

PosCallVerify ==
    /\ phase = "ResponseSent"
    /\ LET res == PosVerify(pv, Val(wire.resp))
       IN  /\ pv' = [pv EXCEPT !.invoked = res.invoked]
           /\ PosStep("Verify", res.out,
                      IF res.out = "true" THEN "Verified" ELSE "Rejected")
    /\ wire' = wire

\* The provers NewPositiveProver builds with the roots in descending order and
\* the small commitments' randomness 0.
PosProvers(x, r) ==
    {res.prover : res \in
        {o \in NewPositiveProver(x, r) :
            /\ o.out = "ok"
            /\ \A i \in 1..3 : Val(o.prover).roots[i] >= Val(o.prover).roots[i + 1]
            /\ Val(o.prover).smallCommitments =
                    [i \in 1..4 |-> ComputeCommit(Val(o.prover).roots[i], 0)]}}

\* The verifiers NewPositiveVerifier returns: from the prover's lists, or from
\* n commitments 1 with receiverCommitment 1.
PosVerifiers(x, r, prover) ==
    {v \in {PosVerifierAfter(ComputeCommit(x, r), Val(prover).smallCommitments,
                             Val(prover).bigCommitments)}
            \cup {PosVerifierAfter(1, [i \in 1..n |-> 1], [i \in 1..n |-> 1])
                    : n \in 0..MaxList}
        : v.built}

InitPosProof ==
    /\ goExp = "one"
    /\ IdleMul /\ IdleSchnorr
    /\ pw \in [x : 0..MaxPosX, r : 1..MaxPosR]
    /\ pp \in PosProvers(pw.x, pw.r)
    /\ pn = 4
    /\ pv \in PosVerifiers(pw.x, pw.r, pp)
    /\ Fresh("Init", 0)

NextPosProof ==
    \/ PosGetProofRandomData
    \/ PosForgeRandomData
    \/ PosSetProofRandomData
    \/ PosGetChallenges
    \/ PosSetChallenges
    \/ PosGetProofData
    \/ PosForgeResponse
    \/ PosCallVerify

SpecPosProof == InitPosProof /\ [][NextPosProof]_vars

(***************************************************************************)
(* Claims on the multiplication proof.                                      *)
(***************************************************************************)
Statement == comm.x3 = comm.x1 * comm.x2
Judged == phase \in {"Verified", "Rejected"}

\* C1: completeness of the multiplication proof.  When the committed values
\* satisfy x3 = x1 * x2, the run GetProofRandomData, SetProofRandomData,
\* GetChallenge or SetChallenge, GetProofData, Verify ends with Verify
\* returning true, for every challenge of [0, 2^challengeSpaceSize).
C1_MulCompleteness ==
    (Judged /\ Statement) => (phase = "Verified" /\ last.out = "true")

C1_Witness ==
    /\ phase = "Verified"
    /\ Statement
    /\ comm.x1 > 0 /\ comm.x2 > 0 /\ comm.r1 > 0
    /\ Val(mv.challenge) > 0

\* C2: the negative-exponent path.  When the response v3 of an honest run is
\* negative, Verify hands no negative exponent to Exp, takes H^v3 as the
\* inverse of H^|v3|, and a proof of a true statement is still accepted.
C2_NegativePath ==
    (Judged /\ Val(wire.resp)[5] < 0) =>
        /\ ~last.negExp
        /\ VerifyTmp2(Val(wire.resp)[5]).val
             = ModInverse(ModExp(H, -Val(wire.resp)[5], N), N)
        /\ Statement => last.out = "true"

C2_Witness ==
    /\ phase = "Verified"
    /\ Statement
    /\ comm.r3 - comm.x2 * comm.r1 < 0
    /\ Val(wire.resp)[5] < 0

\* C3 as claimed: a proof for committed values with x3 # x1 * x2 is rejected
\* for every challenge of [0, 2^challengeSpaceSize).
C3_FalseStatementRejected ==
    (Judged /\ ~Statement) => last.out = "false"

\* C3 as amended: a proof for committed values with x3 # x1 * x2 is accepted
\* exactly when challenge * (x3 - x1 * x2) is a multiple of the order of G,
\* which challenge 0 always is; for every other challenge it is rejected.
C3_FalseStatementRejectedUnlessMultiple ==
    (Judged /\ ~Statement) =>
        (last.out = "true" <=>
            (Val(mv.challenge) * (comm.x3 - comm.x1 * comm.x2)) % Ord(G) = 0)

C3_Witness ==
    /\ phase = "Rejected"
    /\ ~Statement
    /\ Val(mv.challenge) > 0
    /\ comm.r3 - comm.x2 * comm.r1 < 0

\* The response differs from the honest one in element i and nowhere else.
MulForgedAt(i) ==
    /\ Val(wire.resp)[i] # MulHonestResponse[i]
    /\ \A j \in 1..5 : j # i => Val(wire.resp)[j] = MulHonestResponse[j]

\* C9 as claimed: after an honest run, Verify returns false when one response
\* element was replaced by a different integer, or when the verifier's
\* challenge is not the one the response was computed for.
C9_MulTamperRejected ==
    (Judged /\ ~MulUntouched) => last.out = "false"

\* C9 as amended: Verify returns false unless the replacement is congruent to
\* the replaced element modulo the order of every base raised to it (G for
\* u1; G and c1 for u; H for v1, v2, v3), and, for a different challenge,
\* unless the difference of the challenges is a multiple of the orders of c1,
\* c2 and c3; in those cases it returns true.
C9_MulTamperRejectedUnlessCongruent ==
    LET honest == MulHonestResponse
        forged == Val(wire.resp)
        Same(i, b) == (forged[i] - honest[i]) % Ord(b) = 0
        delta == Val(mv.challenge) - Val(wire.chal)
    IN  Judged =>
        /\ MulForgedAt(1) => (last.out = "true" <=> Same(1, G))
        /\ MulForgedAt(2) => (last.out = "true" <=> (Same(2, G) /\ Same(2, Commitment1)))
        /\ \A i \in 3..5 : MulForgedAt(i) => (last.out = "true" <=> Same(i, H))
        /\ delta # 0 =>
             (last.out = "true" <=>
                \A c \in {Commitment1, Commitment2, Commitment3} : delta % Ord(c) = 0)

C9_Witness ==
    /\ phase = "Rejected"
    /\ MulForgedAt(5)
    /\ Val(wire.resp)[5] < 0
    /\ Val(wire.chal) > 0

\* C5 as claimed: a call made outside the sequence Init, RandomDataSent,
\* ChallengeSet, ResponseSent, Verified or Rejected is rejected (a panic is
\* counted as a rejection here) and yields neither a response nor a verdict.
C5_OrderEnforced ==
    ~last.inOrder => last.out \in {"panic", "usage error"}


(***************************************************************************)
(* Claims on the representation proof.                                      *)
(***************************************************************************)
\* The order of g in the Schnorr group.
OrdP(g) == CHOOSE k \in 1..P : ModExp(g, k, P) = 1 /\ \A j \in 1..(k - 1) : ModExp(g, j, P) # 1

\* C4: completeness of the representation proof.  For k >= 1 bases and
\* secrets with y the product of the g_i^x_i, and every challenge of [0, Q)
\* from GetChallenge or SetChallenge, the responses of GetProofData satisfy
\* prod g_i^z_i = t * y^challenge and Verify returns true.
C4_SchnorrCompleteness ==
    Judged =>
        /\ phase = "Verified" /\ last.out = "true"
        /\ SchnorrLeft(sch.bases, Val(wire.resp), Len(sch.bases))
             = GroupMul(Val(wire.rand), GroupExp(sch.y, Val(wire.chal)))

C4_Witness ==
    /\ phase = "Verified"
    /\ Len(sch.bases) = 1
    /\ sch.secrets[1] > 1
    /\ Val(wire.chal) > 1
    /\ Val(sp.randomVals)[1] > 0
    /\ Val(wire.chal) * sch.secrets[1] + Val(sp.randomVals)[1] >= Q

\* The response differs from the honest one in element i and nowhere else.
SchnorrForgedAt(i) ==
    /\ Val(wire.resp)[i] # SchnorrHonestResponse[i]
    /\ \A j \in 1..Len(sch.bases) : j # i => Val(wire.resp)[j] = SchnorrHonestResponse[j]

\* C10 as claimed: after an honest run, Verify returns false when one z_i was
\* replaced by a different integer, or when the verifier's challenge is not
\* the one the response was computed for.
C10_SchnorrTamperRejected ==
    (Judged /\ ~SchnorrUntouched) => last.out = "false"

\* C10 as amended: Verify returns false unless the replacement of z_i is
\* congruent to z_i modulo the order of g_i, and, for a different challenge,
\* unless the difference of the challenges is a multiple of the order of y;
\* in those cases it returns true.
C10_SchnorrTamperRejectedUnlessCongruent ==
    LET honest == SchnorrHonestResponse
        forged == Val(wire.resp)
        delta == Val(sv.challenge) - Val(wire.chal)
    IN  Judged =>
        /\ \A i \in 1..Len(sch.bases) :
             SchnorrForgedAt(i) =>
                (last.out = "true" <=> (forged[i] - honest[i]) % OrdP(sch.bases[i]) = 0)
        /\ delta # 0 => (last.out = "true" <=> delta % OrdP(sch.y) = 0)

C10_Witness ==
    /\ phase = "Rejected"
    /\ Len(sch.bases) = 2
    /\ SchnorrForgedAt(2)
    /\ Val(wire.chal) > 0


(***************************************************************************)
(* Claims on the positive-number proof.                                     *)
(***************************************************************************)
\* C6 as claimed: NewPositiveVerifier returns an error and no verifier
\* whenever the product of the supplied big commitments differs from
\* receiverCommitment, before any receiver or sub-verifier is created.
C6_ProductChecked ==
    (last.op = "NewPositiveVerifier" /\ Product(pv.big, Len(pv.big)) # pv.c) =>
        /\ last.out = "error"
        /\ ~pv.built
        /\ pv.made = 0

\* What holds of the code: with as many big as small commitments, a product
\* that differs from receiverCommitment gives an error before any receiver.
C6_ProductCheckedEqualLengths ==
    (/\ last.op = "NewPositiveVerifier"
     /\ Len(pv.big) = Len(pv.small)
     /\ Product(pv.big, Len(pv.big)) # pv.c) =>
        /\ last.out = "error"
        /\ ~pv.built
        /\ pv.made = 0

\* C7 as claimed: for x >= 0 NewPositiveProver builds four big commitments
\* G^(r_i^2) * H^(rho_i) with the r_i^2 summing to x and the rho_i to r, whose
\* product is c = G^x * H^r, and NewPositiveVerifier built from them succeeds.
C7_HonestProverConsistent ==
    /\ (last.op = "NewPositiveProver" /\ pw.x >= 0) =>
        /\ last.out = "ok"
        /\ Sum([i \in 1..4 |-> Val(pp).roots[i] * Val(pp).roots[i]], 4) = pw.x
        /\ Sum(Val(pp).rs, 4) = pw.r
        /\ Product(Val(pp).bigCommitments, 4) = ComputeCommit(pw.x, pw.r)
    /\ (last.op = "NewPositiveVerifier" /\ ~IsNil(pp)) =>
        (last.out = "ok" /\ pv.built /\ Len(pv.squareVerifiers) = 4)

\* What holds of the code: the same for every r other than 0.
C7_HonestProverConsistentNonZeroR ==
    pw.r # 0 => C7_HonestProverConsistent

\* C8 as claimed: PositiveVerifier.Verify returns false whenever proofData
\* has not 12 elements, and for 12 elements returns true if and only if each
\* of the four square sub-verifiers accepts its triple of proofData.
C8_VerifyIsAndOfFour ==
    last.op = "Verify" =>
        IF Len(Val(wire.resp)) # 12
        THEN last.out = "false"
        ELSE /\ Len(pv.squareVerifiers) = 4
             /\ last.out \in {"true", "false"}
             /\ last.out = "true" <=>
                    \A i \in 1..4 :
                        SquareVerify(pv.squareVerifiers[i], Val(wire.resp)[3 * i - 2],
                                     Val(wire.resp)[3 * i - 1], Val(wire.resp)[3 * i])

\* What holds of the code: the same of a verifier that has four sub-verifiers.
C8_VerifyIsAndOfFourGivenFour ==
    Len(pv.squareVerifiers) = 4 => C8_VerifyIsAndOfFour


(***************************************************************************)
(* Claims on construction and on the responses.                             *)
(***************************************************************************)
\* C11: schnorr.NewProver returns an error and no Prover whenever the number
\* of secrets differs from the number of bases, and a Prover with a nil error
\* whenever they are equal.
C11_NewProverLengths ==
    last.op = "NewProver" =>
        IF Len(sch.secrets) # Len(sch.bases)
        THEN last.out = "error" /\ ~sp.built
        ELSE last.out = "ok" /\ sp.built

C11_Witness ==
    /\ last.op = "NewProver"
    /\ last.out = "error"
    /\ Len(sch.secrets) > Len(sch.bases)
    /\ Len(sch.bases) > 0

\* C12: GetProofData(challenge) returns exactly u1 = y1 + challenge*x1,
\* u = y + challenge*x2, v1 = s1 + challenge*r1, v2 = s2 + challenge*r2 and
\* v3 = s3 + challenge*(r3 - x2*r1) as integers, not reduced modulo N or a
\* group order, for the maskings the preceding GetProofRandomData stored.
C12_ExactResponse ==
    (last.op = "GetProofData" /\ last.out = "ok") =>
        LET m == Val(mp)
            challenge == Val(wire.chal)
        IN  Val(wire.resp) =
                <<m.y1 + challenge * comm.x1,
                  m.y + challenge * comm.x2,
                  m.s1 + challenge * comm.r1,
                  m.s2 + challenge * comm.r2,
                  m.s3 + challenge * (comm.r3 - comm.x2 * comm.r1)>>

C12_Witness ==
    /\ last.op = "GetProofData"
    /\ last.out = "ok"
    /\ Val(wire.resp)[1] > N
    /\ Val(wire.resp)[3] >= Ord(H)
    /\ Val(wire.resp)[5] < 0

\* C13: NewPositiveProver returns an error and no prover when the witness x
\* is negative, and then has created no sub-committer, sub-commitment or
\* square prover.
C13_NegativeWitnessError ==
    (last.op = "NewPositiveProver" /\ pw.x < 0) =>
        /\ last.out = "error"
        /\ IsNil(pp)
        /\ pn = 0

C13_Witness ==
    /\ last.op = "NewPositiveProver"
    /\ pw.x < 0
    /\ pw.r > 0
    /\ last.out = "error"

\* C15 as claimed: PositiveVerifier.Verify has no early exit; on 12 elements
\* all four square sub-verifications are evaluated even when an earlier one
\* has rejected, so the sub-verifiers invoked are the same for every input.
C15_NoEarlyExit ==
    (/\ last.op = "Verify"
     /\ Len(Val(wire.resp)) = 12
     /\ Len(pv.squareVerifiers) = 4) => pv.invoked = 1..4

\* What holds of the code: the sub-verifiers invoked are those up to the first
\* that rejects.
C15_InvokedUpToFirstRejection ==
    (/\ last.op = "Verify"
     /\ Len(Val(wire.resp)) = 12
     /\ Len(pv.squareVerifiers) = 4) =>
        \E n \in 1..4 :
            /\ pv.invoked = 1..n
            /\ \A i \in 1..(n - 1) :
                 SquareVerify(pv.squareVerifiers[i], Val(wire.resp)[3 * i - 2],
                              Val(wire.resp)[3 * i - 1], Val(wire.resp)[3 * i])
            /\ n < 4 =>
                 ~SquareVerify(pv.squareVerifiers[n], Val(wire.resp)[3 * n - 2],
                               Val(wire.resp)[3 * n - 1], Val(wire.resp)[3 * n])

\* C16 as claimed: for every integer r, positive, negative or zero,
\* getCommitRandoms(r, 4) returns four integers whose sum is r, every one
\* >= 0 when r >= 0 and every one <= 0 when r < 0.
C16_SharesSumToR ==
    (last.op = "NewPositiveProver" /\ pw.x >= 0) =>
        /\ getCommitRandoms(pw.r, 4) # {}
        /\ last.out = "ok"
        /\ Len(Val(pp).rs) = 4
        /\ Sum(Val(pp).rs, 4) = pw.r
        /\ \A i \in 1..4 : IF pw.r >= 0 THEN Val(pp).rs[i] >= 0 ELSE Val(pp).rs[i] <= 0

\* What holds of the code: the same for every r other than 0.
C16_SharesSumToNonZeroR ==
    pw.r # 0 => C16_SharesSumToR

\* The verifier was built from the prover's GetVerifierInitializationData.
PosHonestVerifier ==
    /\ pv.built
    /\ pv.small = Val(pp).smallCommitments
    /\ pv.big = Val(pp).bigCommitments
    /\ pv.c = ComputeCommit(pw.x, pw.r)

\* The i-th triple of the response in flight.
PosTriple(i) ==
    <<Val(wire.resp)[3 * i - 2], Val(wire.resp)[3 * i - 1], Val(wire.resp)[3 * i]>>

\* C17: the flattened ordering is mirrored.  GetProofRandomData puts
\* sub-prover i's two elements at 2i and 2i+1, GetProofData puts the responses
\* to challenges[i] at 3i, 3i+1 and 3i+2, and SetProofRandomData, GetChallenges
\* or SetChallenges and Verify hand those positions to sub-verifier i, so that
\* sub-verifier i receives what sub-prover i made and the run is accepted.
C17_OrderingMirrored ==
    PosHonestVerifier =>
        /\ last.op = "GetProofRandomData" =>
             \A i \in 1..4 :
                <<Val(wire.rand)[2 * i - 1], Val(wire.rand)[2 * i]>> = SquareProofRandomData(i)
        /\ \A i \in 1..4 :
             /\ ~IsNil(pv.squareVerifiers[i].rand) =>
                  pv.squareVerifiers[i].rand
                     = Some(<<Val(wire.rand)[2 * i - 1], Val(wire.rand)[2 * i]>>)
             /\ ~IsNil(pv.squareVerifiers[i].challenge) =>
                  /\ i <= Len(Val(wire.chal))
                  /\ pv.squareVerifiers[i].challenge = Some(Val(wire.chal)[i])
        /\ (last.op = "GetProofData" /\ last.out = "ok") =>
             \A i \in 1..4 : PosTriple(i) = SquareProofData(i, Val(wire.chal)[i])
        /\ (/\ last.op = "Verify"
            /\ wire.rand = Some(PosProofRandomData)
            /\ wire.resp = PosProofData(Val(wire.chal))) =>
             /\ last.out = "true"
             /\ pv.invoked = 1..4
             /\ \A i \in 1..4 :
                  SquareVerify(pv.squareVerifiers[i], PosTriple(i)[1], PosTriple(i)[2],
                               PosTriple(i)[3])

C17_Witness ==
    /\ PosHonestVerifier
    /\ phase = "Verified"
    /\ wire.rand = Some(PosProofRandomData)
    /\ wire.resp = PosProofData(Val(wire.chal))
    /\ Val(wire.chal)[1] # Val(wire.chal)[2]
    /\ Val(wire.chal)[3] # Val(wire.chal)[4]

\* C18 as claimed: NewPositiveVerifier returns a verifier only when exactly
\* four small and four big commitments were supplied and its product check
\* covers every supplied big commitment, so that Verify never returns true
\* without four square sub-verifications.
C18_FourCommitmentsOrNoVerifier ==
    /\ pv.built =>
        /\ Len(pv.small) = 4
        /\ Len(pv.big) = 4
        /\ Len(pv.squareVerifiers) = 4
        /\ pv.c = Product(pv.big, Len(pv.big))
    /\ (last.op = "Verify" /\ last.out = "true") => pv.invoked = 1..4

\* What holds of the code: a verifier is returned when there are as many big
\* as small commitments, however many, and the product of the big ones is
\* receiverCommitment; it has one sub-verifier for each.
C18_EqualLengthsOrNoVerifier ==
    pv.built =>
        /\ Len(pv.small) = Len(pv.big)
        /\ Len(pv.squareVerifiers) = Len(pv.big)
        /\ pv.c = Product(pv.big, Len(pv.big))

\* C19: the maskings follow the most recent commit.  In either prover every
\* GetProofRandomData call replaces all stored maskings, so the stored ones
\* are those of the random data returned last, GetProofData(challenge) is
\* computed from them, and a verifier that holds the random data returned
\* last accepts that response.
C19_MaskingsOfLastCommit ==
    /\ (~SchnorrSession /\ ~IsNil(mp)) =>
        /\ wire.rand = Some(ProofRandomData(Val(mp)))
        /\ (last.op = "GetProofData" /\ last.out = "ok" /\ ~IsNil(wire.chal)) =>
             Val(wire.resp) =
                <<Val(mp).y1 + Val(wire.chal) * comm.x1,
                  Val(mp).y + Val(wire.chal) * comm.x2,
                  Val(mp).s1 + Val(wire.chal) * comm.r1,
                  Val(mp).s2 + Val(wire.chal) * comm.r2,
                  Val(mp).s3 + Val(wire.chal) * (comm.r3 - comm.x2 * comm.r1)>>
        /\ (/\ last.op = "Verify"
            /\ Statement
            /\ mv.d = wire.rand
            /\ ~IsNil(mv.challenge)
            /\ wire.resp = Some(ProofData(Val(mp), Val(mv.challenge)))) =>
             last.out = "true"
    /\ (sp.built /\ ~IsNil(sp.randomVals)) =>
        /\ wire.rand = Some(SchnorrRandomData(sch.bases, Val(sp.randomVals), Len(sch.bases)))
        /\ (last.op = "GetProofData" /\ last.out = "ok" /\ ~IsNil(wire.chal)) =>
             \A i \in 1..Len(sch.bases) :
                Val(wire.resp)[i]
                   = (Val(sp.randomVals)[i] + Val(wire.chal) * sch.secrets[i]) % Q
        /\ (/\ last.op = "Verify"
            /\ sv.proofRandomData = wire.rand
            /\ ~IsNil(sv.challenge)
            /\ wire.resp
                 = Some(SchnorrProofData(sch.secrets, Val(sp.randomVals), Val(sv.challenge)))) =>
             last.out = "true"

C19_Witness ==
    /\ ~SchnorrSession
    /\ spare < MaxMisuse
    /\ phase = "Verified"
    /\ mv.d = wire.rand
    /\ wire.resp = Some(ProofData(Val(mp), Val(mv.challenge)))
    /\ Val(mv.challenge) > 0
    /\ Val(mp).s3 > 0

\* C20 as claimed: PositiveVerifier.SetProofRandomData returns an error when
\* proofRandomData has not 8 elements, leaving the random data of every
\* sub-verifier as it was (unset, before the first call); with 8 elements it
\* returns nil after giving elements 2i and 2i+1 to sub-verifier i, for all
\* four i.
C20_SetProofRandomDataLength ==
    last.op = "SetProofRandomData" =>
        IF Len(Val(wire.rand)) # 8
        THEN /\ last.out = "error"
             /\ \A i \in 1..Len(pv.squareVerifiers) : IsNil(pv.squareVerifiers[i].rand)
        ELSE /\ last.out = "ok"
             /\ Len(pv.squareVerifiers) = 4
             /\ \A i \in 1..4 :
                  pv.squareVerifiers[i].rand
                     = Some(<<Val(wire.rand)[2 * i - 1], Val(wire.rand)[2 * i]>>)

\* What holds of the code: the same of a verifier that has four sub-verifiers.
C20_SetProofRandomDataLengthGivenFour ==
    Len(pv.squareVerifiers) = 4 => C20_SetProofRandomDataLength

=============================================================================
